---- MODULE Spec2Model ----
(***************************************************************************)
(* A model of vcfconvert.c (bcftools convert): the two conversion          *)
(* directions tsv_to_vcf and vcf_to_gensample, with the per-site allele    *)
(* table of tsv_setter_aa / tsv_setter_aa1, the run counters, the output   *)
(* sinks and the sample ordering of open_vcf.                              *)
(***************************************************************************)
EXTENDS Integers, Sequences, FiniteSets, TLC

\* ------------------------------------------------------------------ bounds
MaxRows    == 2   \* lines read from the tabular input (tsv_to_vcf)
MaxSamples == 2   \* samples in the header
MaxRecs    == 3   \* records read from the variant source (vcf_to_gensample)

\* ------------------------------------------------------- program constants
FLT_INCLUDE == 1
FLT_EXCLUDE == 2
bcf_int32_vector_end == -2147483647

NUL == "\\0"

VARIABLES
    pc,           \* position of the run
    convert_func, \* args->convert_func: the direction chosen by main_vcfconvert
    sinkFailed,   \* history: some open/write/close of an output sink has failed
    \* ---- tsv_to_vcf
    nsmpl,        \* bcf_hdr_nsamples(args->header), rec->n_sample
    n,            \* args->n: total, skipped, hom_rr, het_ra, hom_aa, het_aa
    nlines,       \* lines read from in_fh so far
    ref,          \* ref[0] as fetched by faidx_fetch_seq (before toupper)
    alleles,      \* int alleles[5], indexed 0..4 (a,c,g,t,n)
    nals,         \* int nals
    i,            \* sample loop index of tsv_setter_aa
    toks,         \* the sample tokens decoded so far in this row (tsv->ss..se)
    gts,          \* args->gts, 2 entries per sample (0 = not written in this row)
    str,          \* args->str: the allele string handed to bcf_update_alleles_str
    setter_ret,   \* return value of tsv_setter_aa ("none" while it runs)
    rec,          \* bcf1_t *rec: the row its coordinates and its alleles/GT come from
    out,          \* records written to out_fh by bcf_write
    accepted,     \* history: rows whose every sample call was decoded
    \* ---- vcf_to_gensample
    cfg,          \* options: filter_str set?, filter_logic, sample_list
    hdr,          \* args->header->samples (after bcf_hdr_set_samples)
    samples,      \* the samples[] array given to convert_init (<<>>: NULL, nsamples 0)
    fh,           \* sample-metadata sink: "unopened", "open", "closed"
    fh_out,       \* lines of the sample-metadata sink
    j,            \* sample line loop index of vcf_to_gensample
    bgzf,         \* genotype sink: "unopened", "open", "null", "closed"
    gen_out,      \* lines of the genotype sink
    nrecs,        \* records read from args->files so far
    line          \* the current source record (bcf_sr_get_line)

tsvVars == <<nsmpl, n, nlines, ref, alleles, nals, i, toks, gts, str, setter_ret, rec, out,
             accepted>>
genVars == <<cfg, hdr, samples, fh, fh_out, j, bgzf, gen_out, nrecs, line>>
vars == <<pc, convert_func, sinkFailed, tsvVars, genVars>>

\* ------------------------------------------------------------ characters
\* toupper(3) on the characters the inputs use
toupper(c) ==
    CASE c = "a" -> "A"
      [] c = "c" -> "C"
      [] c = "g" -> "G"
      [] c = "t" -> "T"
      [] c = "n" -> "N"
      [] OTHER -> c

acgt_to_5(base) ==
    IF base = "A" THEN 0
    ELSE IF base = "C" THEN 1
    ELSE IF base = "G" THEN 2
    ELSE IF base = "T" THEN 3
    ELSE 4

\* "ACGTN"[k]
ACGTN(k) == <<"A", "C", "G", "T", "N">>[k + 1]

bcf_gt_unphased(idx) == (idx + 1) * 2

\* ------------------------------------------------------------------ inputs
\* reference bases returned by faidx_fetch_seq
RefBases == {"A", "c", "N"}

\* per-sample call tokens of a row; a token is the characters ss[0..se-ss)
Tokens ==
    { <<"c">>, <<"N">>,
      <<"C", "C">>, <<"C", "A">>, <<"A", "A">>, <<"T", "C">>,
      <<"-">>, <<"-", "-">>, <<"I">>, <<"D">>,
      <<"A", "C", "G">> }

\* ss[0], ss[1] of a token; the character after a one-character token is NUL
ss0(tok) == tok[1]
ss1(tok) == IF Len(tok) >= 2 THEN tok[2] ELSE NUL

\* ----------------------------------------------------------- tsv_setter_aa1
\* the return value: -1 too long, -2 gap/indel marker, 0 decoded
aa1_ret(tok) ==
    IF Len(tok) > 2 THEN -1
    ELSE IF ss0(tok) = "-" THEN -2
    ELSE IF ss0(tok) = "I" THEN -2
    ELSE IF ss0(tok) = "D" THEN -2
    ELSE 0

aa1_a0(tok) == acgt_to_5(toupper(ss0(tok)))
aa1_a1(tok) == IF ss1(tok) # NUL THEN acgt_to_5(toupper(ss1(tok))) ELSE aa1_a0(tok)

\* a variant of AssignIndex that forgets the ++ of (*nals)++
AssignIndex_noincrement(tab, a) ==
    IF tab[1][a] < 0
    THEN <<[tab[1] EXCEPT ![a] = tab[2]], tab[2]>>
    ELSE tab

\* if ( alleles[a]<0 ) alleles[a] = (*nals)++;   on the pair <<alleles, nals>>
AssignIndex(tab, a) ==
    IF tab[1][a] < 0
    THEN <<[tab[1] EXCEPT ![a] = tab[2]], tab[2] + 1>>
    ELSE tab

\* the table after both characters of the token went through it
aa1_table(tab, tok) == AssignIndex(AssignIndex(tab, aa1_a0(tok)), aa1_a1(tok))

\* gts[0], gts[1] written for the token, given the table after the token
aa1_gt0(als, tok) == bcf_gt_unphased(als[aa1_a0(tok)])
\* a variant of aa1_gt1 that stores the index in the second position of every call
aa1_gt1_diploid(als, tok) == bcf_gt_unphased(als[aa1_a1(tok)])

aa1_gt1(als, tok) ==
    IF ss1(tok) # NUL THEN bcf_gt_unphased(als[aa1_a1(tok)]) ELSE bcf_int32_vector_end

\* the tally the call goes to
aa1_tally(r, a0, a1) ==
    IF r = a0 /\ r = a1 THEN "hom_rr"
    ELSE IF r = a0 THEN "het_ra"
    ELSE IF r = a1 THEN "het_ra"
    ELSE IF a0 = a1 THEN "hom_aa"
    ELSE "het_aa"

\* ------------------------------------------------------------ tsv_setter_aa
FreshTable(r) == [k \in 0..4 |-> IF k = acgt_to_5(toupper(r)) THEN 0 ELSE -1]

RECURSIVE AltFrom(_, _)
\* the loop for (i=0; i<5; i++) if ( alleles[i]>0 ) ... "ACGTN"[i], from i = k
AltFrom(als, k) ==
    IF k > 4 THEN <<>>
    ELSE (IF als[k] > 0 THEN <<ACGTN(k)>> ELSE <<>>) \o AltFrom(als, k + 1)

\* args->str: ref[0] then the alternates, as a sequence of allele characters
AlleleStr(r, als) == <<toupper(r)>> \o AltFrom(als, 0)

\* tsv_parse: a malformed row or a failing setter gives -1, otherwise 0
tsv_parse(malformed, ret) == IF malformed \/ ret < 0 THEN -1 ELSE 0

NoTable == [k \in 0..4 |-> -1]
NoGts == [k \in 1..(2 * MaxSamples) |-> 0]
ZeroCounters == [total |-> 0, skipped |-> 0, hom_rr |-> 0, het_ra |-> 0,
                 hom_aa |-> 0, het_aa |-> 0]

TsvInit ==
    /\ nsmpl \in 1..MaxSamples
    /\ n = ZeroCounters
    /\ nlines = 0
    /\ ref = NUL /\ alleles = NoTable /\ nals = 0 /\ i = 0
    /\ toks = <<>> /\ gts = NoGts /\ str = <<>> /\ setter_ret = "none"
    /\ rec = [site |-> 0, data |-> 0]
    /\ out = <<>>
    /\ accepted = 0

\* the locals of tsv_setter_aa are gone once it returned; args->str and args->gts
\* are overwritten before they are read again
RowLocalsReset ==
    /\ ref' = NUL /\ alleles' = NoTable /\ nals' = 0 /\ i' = 0
    /\ toks' = <<>> /\ gts' = NoGts /\ str' = <<>> /\ setter_ret' = "none"

RowLocalsUnchanged == UNCHANGED <<ref, alleles, nals, i, toks, gts, str, setter_ret>>

\* tsv_to_vcf up to the read loop: option checks, fai_load, header, hts_open,
\* bcf_hdr_write, tsv_init/tsv_register, hts_open of the input
TsvStart ==
    /\ pc = "main" /\ convert_func = "tsv_to_vcf"
    /\ \E outcome \in {"ok", "config_error", "open_fail", "hdr_fail"} :
        /\ pc' = CASE outcome = "config_error" -> "aborted"
                   [] outcome = "open_fail" -> "crashed"
                   [] OTHER -> "read"
        /\ sinkFailed' = (outcome \in {"open_fail", "hdr_fail"})
    /\ UNCHANGED <<convert_func, tsvVars, genVars>>

\* if ( line.s[0]=='#' ) continue;
TsvComment ==
    /\ pc = "read" /\ nlines < MaxRows
    /\ nlines' = nlines + 1
    /\ UNCHANGED <<pc, convert_func, sinkFailed, nsmpl, n, rec, out, accepted, genVars>>
    /\ RowLocalsUnchanged

\* a row tsv_parse cannot parse: n.total++, n.skipped++
TsvMalformed ==
    /\ pc = "read" /\ nlines < MaxRows
    /\ nlines' = nlines + 1
    /\ tsv_parse(TRUE, 0) # 0
    /\ n' = [n EXCEPT !.total = @ + 1, !.skipped = @ + 1]
    /\ UNCHANGED <<pc, convert_func, sinkFailed, nsmpl, rec, out, accepted, genVars>>
    /\ RowLocalsUnchanged

\* a parsable row: n.total++, the CHROM/POS/ID setters fill rec, tsv_setter_aa
\* starts: the reference base is fetched and the table built
TsvBeginRow ==
    /\ pc = "read" /\ nlines < MaxRows
    /\ nlines' = nlines + 1
    /\ n' = [n EXCEPT !.total = @ + 1]
    /\ rec' = [rec EXCEPT !.site = nlines + 1]
    /\ \E r \in RefBases :
        /\ ref' = r
        /\ alleles' = FreshTable(r)
    /\ nals' = 1 /\ i' = 0
    /\ pc' = "setter"
    /\ UNCHANGED <<convert_func, sinkFailed, nsmpl, toks, gts, str, setter_ret, out, accepted,
                   genVars>>

\* faidx_fetch_seq returns NULL: error()
TsvRefFail ==
    /\ pc = "read" /\ nlines < MaxRows
    /\ nlines' = nlines + 1
    /\ n' = [n EXCEPT !.total = @ + 1]
    /\ rec' = [rec EXCEPT !.site = nlines + 1]
    /\ pc' = "aborted"
    /\ UNCHANGED <<convert_func, sinkFailed, nsmpl, out, accepted, genVars>>
    /\ RowLocalsUnchanged

\* tsv_next returns -1 for a sample after the first: error("Too few columns")
TsvTooFew ==
    /\ pc = "setter" /\ i > 0 /\ i < nsmpl
    /\ pc' = "aborted"
    /\ UNCHANGED <<convert_func, sinkFailed, nsmpl, n, nlines, rec, out, accepted, genVars>>
    /\ RowLocalsUnchanged

\* one iteration of the sample loop: tsv_setter_aa1 on the next token
TsvDecode ==
    /\ pc = "setter" /\ i < nsmpl
    /\ \E tok \in Tokens :
        LET ret == aa1_ret(tok)
            tab == aa1_table(<<alleles, nals>>, tok)
        IN  /\ toks' = Append(toks, tok)
            /\ IF ret = -1
               THEN /\ pc' = "aborted"
                    /\ UNCHANGED <<alleles, nals, gts, n, i, setter_ret>>
               ELSE IF ret = -2
               THEN /\ pc' = "parsed"
                    /\ setter_ret' = 0
                    /\ UNCHANGED <<alleles, nals, gts, n, i>>
               ELSE /\ pc' = "setter"
                    /\ alleles' = tab[1]
                    /\ nals' = tab[2]
                    /\ gts' = [gts EXCEPT ![2 * i + 1] = aa1_gt0(tab[1], tok),
                                          ![2 * i + 2] = aa1_gt1(tab[1], tok)]
                    /\ n' = [n EXCEPT ![aa1_tally(acgt_to_5(toupper(ref)),
                                                  aa1_a0(tok), aa1_a1(tok))] = @ + 1]
                    /\ i' = i + 1
                    /\ UNCHANGED setter_ret
    /\ UNCHANGED <<convert_func, sinkFailed, nsmpl, nlines, ref, str, rec, out, accepted,
                   genVars>>

\* after the loop: the allele string, bcf_update_alleles_str, bcf_update_genotypes
TsvEmit ==
    /\ pc = "setter" /\ i = nsmpl
    /\ str' = AlleleStr(ref, alleles)
    /\ rec' = [rec EXCEPT !.data = nlines]
    /\ setter_ret' = 0
    /\ accepted' = accepted + 1
    /\ pc' = "parsed"
    /\ UNCHANGED <<convert_func, sinkFailed, nsmpl, n, nlines, ref, alleles, nals, i, toks,
                   gts, out, genVars>>

\* if ( !tsv_parse(tsv, rec, line.s) ) bcf_write(...); else args->n.skipped++;
\* the result of bcf_write is not looked at
TsvWrite ==
    /\ pc = "parsed"
    /\ IF tsv_parse(FALSE, setter_ret) = 0
       THEN /\ \/ out' = Append(out, rec) /\ UNCHANGED sinkFailed
               \/ out' = out /\ sinkFailed' = TRUE
            /\ UNCHANGED n
       ELSE /\ n' = [n EXCEPT !.skipped = @ + 1]
            /\ UNCHANGED <<out, sinkFailed>>
    /\ RowLocalsReset
    /\ pc' = "read"
    /\ UNCHANGED <<convert_func, nsmpl, nlines, rec, accepted, genVars>>

\* end of input: hts_close(in_fh) is checked, hts_close(out_fh) is not
TsvClose ==
    /\ pc = "read"
    /\ \E inClosed \in BOOLEAN, outClosed \in BOOLEAN :
        /\ pc' = IF inClosed THEN "done" ELSE "aborted"
        /\ sinkFailed' = (sinkFailed \/ (inClosed /\ ~outClosed))
    /\ UNCHANGED <<convert_func, tsvVars, genVars>>

NextTsv ==
    \/ TsvStart \/ TsvComment \/ TsvMalformed \/ TsvBeginRow \/ TsvRefFail
    \/ TsvTooFew \/ TsvDecode \/ TsvEmit \/ TsvWrite \/ TsvClose

\* --------------------------------------------------------- vcf_to_gensample
SampleNames == <<"s1", "s2", "s3", "s4", "s5">>

\* the samples of the source header, in header order
SrcHeader == SubSeq(SampleNames, 1, MaxSamples)

Range(f) == {f[k] : k \in DOMAIN f}

RECURSIVE Keep(_, _)
\* the subsequence of a header whose names are in S (header order is kept)
Keep(h, S) ==
    IF h = <<>> THEN <<>>
    ELSE (IF Head(h) \in S THEN <<Head(h)>> ELSE <<>>) \o Keep(Tail(h), S)

RECURSIVE Perms(_)
\* the orderings of a set of names
Perms(S) ==
    IF S = {} THEN {<<>>}
    ELSE UNION {{<<x>> \o p : p \in Perms(S \ {x})} : x \in S}

\* --samples values: absent, "-", "^a,b" (negated), "a,b" (a list: any ordering of
\* some header samples, a name twice, a name the header lacks)
SampleLists ==
    {[kind |-> "none", names |-> <<>>], [kind |-> "dash", names |-> <<>>]}
    \cup {[kind |-> "neg", names |-> Keep(SrcHeader, S)] :
            S \in (SUBSET Range(SrcHeader)) \ {{}}}
    \cup {[kind |-> "list", names |-> p] :
            p \in (UNION {Perms(S) : S \in SUBSET Range(SrcHeader)}) \ {<<>>}}
    \cup {[kind |-> "list", names |-> <<"s1", "s1">>],
          [kind |-> "list", names |-> <<"zz">>]}

\* -i / -e: filter_str and filter_logic are set together (main_vcfconvert)
FilterOptions ==
    {[filter |-> FALSE, logic |-> 0],
     [filter |-> TRUE, logic |-> FLT_INCLUDE],
     [filter |-> TRUE, logic |-> FLT_EXCLUDE],
     [filter |-> TRUE, logic |-> FLT_INCLUDE + FLT_EXCLUDE]}

NoCfg == [filter |-> FALSE, logic |-> 0, sample_list |-> [kind |-> "none", names |-> <<>>]]

\* does open_vcf go into the sample block: sample_list && strcmp("-",sample_list)
HasSampleList(sl) == sl.kind \in {"neg", "list"}

\* bcf_hdr_set_samples: its result (0, or >0 for a name the header lacks)
set_samples_ret(h, sl) ==
    IF \E k \in 1..Len(sl.names) : sl.names[k] \notin Range(h)
    THEN CHOOSE k \in 1..Len(sl.names) :
            /\ sl.names[k] \notin Range(h)
            /\ \A m \in 1..(k - 1) : sl.names[m] \in Range(h)
    ELSE 0

\* bcf_hdr_set_samples: the header it leaves, the kept samples in header order
set_samples_hdr(h, sl) ==
    IF sl.kind = "neg" THEN Keep(h, Range(h) \ Range(sl.names))
    ELSE Keep(h, Range(sl.names))

\* bcf_hdr_id2int(header, BCF_DT_SAMPLE, name): 0-based position in the header
bcf_hdr_id2int(h, name) == (CHOOSE k \in 1..Len(h) : h[k] = name) - 1

\* the samples[] array open_vcf builds for a list that is not negated
SamplesArray(h, sl) == [k \in 1..Len(sl.names) |-> bcf_hdr_id2int(h, sl.names[k])]

\* convert_init/convert_line: the samples whose columns a line holds, in column
\* order; a NULL samples array means every header sample in header order
ConvertColumns(h, smp) ==
    IF smp = <<>> THEN h ELSE [k \in 1..Len(smp) |-> h[smp[k] + 1]]

\* a variant of FilterPass that never negates
FilterPass_nopolarity(hasFilter, logic, ev) == IF hasFilter THEN ev ELSE TRUE

\* the filter decision of the read loop
FilterPass(hasFilter, logic, ev) ==
    IF hasFilter
    THEN (IF (logic \div FLT_EXCLUDE) % 2 = 1 THEN ~ev ELSE ev)
    ELSE TRUE

NoLine == [n_allele |-> 0, ev |-> FALSE, nonempty |-> FALSE]

GenInit ==
    /\ cfg \in {[filter |-> f.filter, logic |-> f.logic, sample_list |-> sl] :
                  f \in FilterOptions, sl \in SampleLists}
    /\ hdr = SrcHeader
    /\ samples = <<>>
    /\ fh = "unopened" /\ fh_out = <<>> /\ j = 0
    /\ bgzf = "unopened" /\ gen_out = <<>>
    /\ nrecs = 0 /\ line = NoLine

GenIdle ==
    /\ cfg = NoCfg
    /\ hdr = <<>>
    /\ samples = <<>>
    /\ fh = "unopened" /\ fh_out = <<>> /\ j = 0
    /\ bgzf = "unopened" /\ gen_out = <<>>
    /\ nrecs = 0 /\ line = NoLine

TsvIdle ==
    /\ nsmpl = 0
    /\ n = ZeroCounters
    /\ nlines = 0
    /\ ref = NUL /\ alleles = NoTable /\ nals = 0 /\ i = 0
    /\ toks = <<>> /\ gts = NoGts /\ str = <<>> /\ setter_ret = "none"
    /\ rec = [site |-> 0, data |-> 0]
    /\ out = <<>>
    /\ accepted = 0

\* the format string (the --tag check) and open_vcf
GenOpenVcf ==
    /\ pc = "main" /\ convert_func = "vcf_to_gensample"
    /\ LET sl == cfg.sample_list
           h == IF HasSampleList(sl) THEN set_samples_hdr(hdr, sl) ELSE hdr
       IN \E outcome \in {"ok", "config_error", "filter_init_null_header"} :
           IF outcome = "config_error"
           THEN pc' = "aborted" /\ UNCHANGED <<hdr, samples>>
           ELSE IF outcome = "filter_init_null_header"
           THEN /\ cfg.filter
                /\ pc' = "crashed"
                /\ UNCHANGED <<hdr, samples>>
           ELSE IF HasSampleList(sl) /\ set_samples_ret(hdr, sl) > 0
           THEN pc' = "aborted" /\ UNCHANGED <<hdr, samples>>
           ELSE IF sl.kind = "list" /\ Len(sl.names) # Len(h)
           THEN pc' = "aborted" /\ hdr' = h /\ UNCHANGED samples
           ELSE /\ hdr' = h
                /\ samples' = IF sl.kind = "list" THEN SamplesArray(h, sl) ELSE <<>>
                /\ pc' = "fopen"
    /\ UNCHANGED <<convert_func, sinkFailed, tsvVars, cfg, fh, fh_out, j, bgzf, gen_out,
                   nrecs, line>>

\* fopen(sample_fname,"w"), checked
GenFopen ==
    /\ pc = "fopen"
    /\ \E ok \in BOOLEAN :
        /\ fh' = IF ok THEN "open" ELSE fh
        /\ pc' = IF ok THEN "sample_header" ELSE "aborted"
        /\ sinkFailed' = (sinkFailed \/ ~ok)
    /\ UNCHANGED <<convert_func, tsvVars, cfg, hdr, samples, fh_out, j, bgzf, gen_out,
                   nrecs, line>>

\* fprintf(fh,"ID_1 ID_2 missing\n0 0 0\n"), result not looked at
GenSampleHeader ==
    /\ pc = "sample_header"
    /\ \E ok \in BOOLEAN :
        /\ fh_out' = IF ok THEN Append(fh_out, "ID_1 ID_2 missing") ELSE fh_out
        /\ sinkFailed' = (sinkFailed \/ ~ok)
    /\ j' = 0
    /\ pc' = "sample_lines"
    /\ UNCHANGED <<convert_func, tsvVars, cfg, hdr, samples, fh, bgzf, gen_out, nrecs, line>>

\* one iteration of the sample line loop, result of fprintf not looked at
GenSampleLine ==
    /\ pc = "sample_lines" /\ j < Len(hdr)
    /\ \E ok \in BOOLEAN :
        /\ fh_out' = IF ok THEN Append(fh_out, hdr[j + 1]) ELSE fh_out
        /\ sinkFailed' = (sinkFailed \/ ~ok)
    /\ j' = j + 1
    /\ UNCHANGED <<pc, convert_func, tsvVars, cfg, hdr, samples, fh, bgzf, gen_out, nrecs,
                   line>>

\* a variant of GenFclose that leaves the sample file open
GenFclose_noclose ==
    /\ pc = "sample_lines" /\ j = Len(hdr)
    /\ pc' = "bgzf_open"
    /\ UNCHANGED <<convert_func, sinkFailed, tsvVars, cfg, hdr, samples, fh, fh_out, j, bgzf,
                   gen_out, nrecs, line>>

\* fclose(fh), result not looked at
GenFclose ==
    /\ pc = "sample_lines" /\ j = Len(hdr)
    /\ \E ok \in BOOLEAN : sinkFailed' = (sinkFailed \/ ~ok)
    /\ fh' = "closed"
    /\ pc' = "bgzf_open"
    /\ UNCHANGED <<convert_func, tsvVars, cfg, hdr, samples, fh_out, j, bgzf, gen_out,
                   nrecs, line>>

\* bgzf_open(gen_fname, ...), result not looked at
GenBgzfOpen ==
    /\ pc = "bgzf_open"
    /\ \E ok \in BOOLEAN :
        /\ bgzf' = IF ok THEN "open" ELSE "null"
        /\ sinkFailed' = (sinkFailed \/ ~ok)
    /\ pc' = "stream"
    /\ UNCHANGED <<convert_func, tsvVars, cfg, hdr, samples, fh, fh_out, j, gen_out, nrecs,
                   line>>

\* one iteration of the read loop on the next source record
GenRecord ==
    /\ pc = "stream" /\ nrecs < MaxRecs
    /\ nrecs' = nrecs + 1
    /\ \E na \in 1..3, ev \in BOOLEAN, ne \in BOOLEAN, wr \in {"ok", "short", "crash"} :
        /\ line' = [n_allele |-> na, ev |-> ev, nonempty |-> ne]
        /\ IF na = 1 \/ ~FilterPass(cfg.filter, cfg.logic, ev) \/ ~ne
           THEN wr = "ok" /\ UNCHANGED <<pc, gen_out, sinkFailed>>
           ELSE IF bgzf = "null"
           THEN \* bgzf_write on a NULL handle
                /\ wr # "ok"
                /\ pc' = IF wr = "crash" THEN "crashed" ELSE "aborted"
                /\ UNCHANGED <<gen_out, sinkFailed>>
           ELSE /\ wr # "crash"
                /\ gen_out' = IF wr = "ok"
                              THEN Append(gen_out, [src |-> nrecs + 1,
                                                    cols |-> ConvertColumns(hdr, samples)])
                              ELSE gen_out
                /\ pc' = IF wr = "ok" THEN "stream" ELSE "aborted"
                /\ sinkFailed' = (sinkFailed \/ wr # "ok")
    /\ UNCHANGED <<convert_func, tsvVars, cfg, hdr, samples, fh, fh_out, j, bgzf>>

\* end of the source: bgzf_close(out), checked
GenClose ==
    /\ pc = "stream"
    /\ \E ok \in BOOLEAN :
        /\ (bgzf = "null") => ~ok
        /\ bgzf' = IF bgzf = "null" THEN bgzf ELSE "closed"
        /\ pc' = IF ok THEN "done" ELSE "aborted"
        /\ sinkFailed' = (sinkFailed \/ ~ok)
    /\ UNCHANGED <<convert_func, tsvVars, cfg, hdr, samples, fh, fh_out, j, gen_out, nrecs,
                   line>>

NextGen ==
    \/ GenOpenVcf \/ GenFopen \/ GenSampleHeader \/ GenSampleLine \/ GenFclose
    \/ GenBgzfOpen \/ GenRecord \/ GenClose

\* ------------------------------------------------------------ specifications
\* main_vcfconvert chose --tsv2vcf
InitTsv ==
    /\ pc = "main"
    /\ sinkFailed = FALSE
    /\ convert_func = "tsv_to_vcf" /\ TsvInit /\ GenIdle

\* main_vcfconvert chose --gensample
InitGen ==
    /\ pc = "main"
    /\ sinkFailed = FALSE
    /\ convert_func = "vcf_to_gensample" /\ GenInit /\ TsvIdle

Init == InitTsv \/ InitGen

Next == NextTsv \/ NextGen

Spec == Init /\ [][Next]_vars

SpecTsv == InitTsv /\ [][NextTsv]_vars

SpecGen == InitGen /\ [][NextGen]_vars

\* ------------------------------------------------------------------ claims
\* the base a character names: upper-cased A, C, G, T, anything else "N"
BaseLetter(c) ==
    CASE c \in {"A", "a"} -> "A"
      [] c \in {"C", "c"} -> "C"
      [] c \in {"G", "g"} -> "G"
      [] c \in {"T", "t"} -> "T"
      [] OTHER -> "N"

\* the table slot of a base letter
LetterSlot(l) == CHOOSE k \in 0..4 : ACGTN(k) = l

\* a token that is decoded: at most two characters, no gap/indel marker in front
Usable(tok) == Len(tok) <= 2 /\ tok[1] \notin {"-", "I", "D"}

HasGapToken == \E k \in 1..Len(toks) : Len(toks[k]) <= 2 /\ toks[k][1] \in {"-", "I", "D"}

RECURSIVE TokChars(_)
\* the characters of the usable tokens of a row, in reading order
TokChars(ts) ==
    IF ts = <<>> THEN <<>>
    ELSE (IF Usable(Head(ts)) THEN Head(ts) ELSE <<>>) \o TokChars(Tail(ts))

RECURSIVE FirstSeen(_, _)
\* the base letters in the order they were first observed
FirstSeen(seen, chars) ==
    IF chars = <<>> THEN seen
    ELSE FirstSeen(IF BaseLetter(Head(chars)) \in Range(seen) THEN seen
                   ELSE Append(seen, BaseLetter(Head(chars))),
                   Tail(chars))

\* the reference base, then the observed bases in first-seen order
SeenOrder == FirstSeen(<<BaseLetter(ref)>>, TokChars(toks))

NotN(l) == l # "N"

InRow == ref # NUL
RowAccepted == pc = "parsed" /\ i = nsmpl

GtIndex(v) == (v \div 2) - 1
GtPhased(v) == v % 2 = 1

\* C1: the allele list emitted for an accepted row is the reference base followed by
\* the observed non-reference, non-N bases in first-seen (assigned-index) order; N is
\* never written as an allele.
C1_AllelesInAssignedOrder ==
    RowAccepted => str = <<BaseLetter(ref)>> \o SelectSeq(Tail(SeenOrder), NotN)

\* C2: a row with a token beginning with '-', 'I' or 'D' is counted as skipped and
\* no record is written for it; every other parsed row is written as one record,
\* appended to the output.
C2_GapRowSkipped ==
    [][pc = "parsed" =>
         IF HasGapToken
         THEN out' = out /\ n'.skipped = n.skipped + 1
         ELSE (out' = Append(out, rec) \/ sinkFailed') /\ n'.skipped = n.skipped]_vars

\* C3: between rows the four genotype-class tallies add up to (accepted sites) x
\* (samples): one tally per sample of an accepted site, none for a rejected site.
C3_TalliesCountAcceptedCalls ==
    pc \in {"read", "done"}
        => n.hom_rr + n.het_ra + n.hom_aa + n.het_aa = accepted * nsmpl

\* C4 as claimed: a one-character token stores the same allele index in both
\* genotype positions; a two-character token stores its two indices in the order
\* given, unphased.
C4_SingleCharBothPositions ==
    InRow =>
        \A k \in 1..i :
            LET tok == toks[k]
                g0 == gts[2 * k - 1]
                g1 == gts[2 * k]
            IN  /\ GtIndex(g0) = alleles[LetterSlot(BaseLetter(tok[1]))]
                /\ ~GtPhased(g0)
                /\ IF Len(tok) = 1
                   THEN g1 = g0
                   ELSE /\ GtIndex(g1) = alleles[LetterSlot(BaseLetter(tok[2]))]
                        /\ ~GtPhased(g1)

\* C4 as amended: a one-character token stores its allele index in the first
\* genotype position and the end-of-vector sentinel in the second (a haploid call);
\* a two-character token stores its two indices in the order given, unphased.
C4_SingleCharHaploid ==
    InRow =>
        \A k \in 1..i :
            LET tok == toks[k]
                g0 == gts[2 * k - 1]
                g1 == gts[2 * k]
            IN  /\ GtIndex(g0) = alleles[LetterSlot(BaseLetter(tok[1]))]
                /\ ~GtPhased(g0)
                /\ IF Len(tok) = 1
                   THEN g1 = bcf_int32_vector_end
                   ELSE /\ GtIndex(g1) = alleles[LetterSlot(BaseLetter(tok[2]))]
                        /\ ~GtPhased(g1)

\* a one-character call and then a two-character call whose indices descend
C4_Witness ==
    /\ pc = "setter" /\ i = 2
    /\ Len(toks[1]) = 1 /\ gts[2] = bcf_int32_vector_end
    /\ Len(toks[2]) = 2 /\ gts[3] > gts[4]

\* the table of a site against the first-seen order of its bases
C8_TableState ==
    InRow =>
        LET order == SeenOrder
            letters == Range(order)
        IN  /\ alleles[LetterSlot(BaseLetter(ref))] = 0
            /\ nals = Len(order)
            /\ \A k \in 1..Len(order) : alleles[LetterSlot(order[k])] = k - 1
            /\ \A s \in 0..4 : ACGTN(s) \notin letters => alleles[s] = -1
            /\ {alleles[s] : s \in 0..4} \ {-1} = 0..(nals - 1)
            /\ \A s, t \in 0..4 : (s # t /\ alleles[s] >= 0) => alleles[s] # alleles[t]

\* a step keeps every assigned index; a new site starts from a fresh table
C8_TableStep ==
    /\ (InRow /\ InRow') => \A s \in 0..4 : alleles[s] >= 0 => alleles'[s] = alleles[s]
    /\ (~InRow /\ InRow') =>
            /\ nals' = 1
            /\ \A s \in 0..4 :
                 alleles'[s] = IF s = LetterSlot(BaseLetter(ref')) THEN 0 ELSE -1

\* C8: within a site the reference holds index 0, every other symbol is unassigned
\* or holds the index of its first observation, the assigned indices are distinct
\* and are exactly 0..nals-1 in first-seen order; an assigned index never changes,
\* and a new site starts from a table holding only the reference at index 0.
C8_AlleleTable == [](C8_TableState) /\ [][C8_TableStep]_vars

\* second row, reference A: T seen first (index 1), then C (index 2)
C8_Witness ==
    /\ pc = "setter" /\ nlines = 2 /\ ref = "A"
    /\ nals = 3 /\ alleles[3] = 1 /\ alleles[1] = 2

\* C9: in a written record every genotype index k of a sample designates the k-th
\* entry of the emitted allele list, and that entry is the base the sample's token
\* named at that position.
C9_GenotypesMatchAlleles ==
    RowAccepted =>
        \A k \in 1..nsmpl, p \in 1..2 :
            LET v == gts[2 * (k - 1) + p]
            IN  v # bcf_int32_vector_end =>
                    /\ GtIndex(v) + 1 \in 1..Len(str)
                    /\ str[GtIndex(v) + 1] = BaseLetter(toks[k][p])

\* C6: after a failed open, write or close of an output sink the run does not
\* complete normally.
C6_SinkFailureIsFatal == pc = "done" => ~sinkFailed

\* once the genotype file is opened or written the sample file is complete and closed
C5_SampleSinkState ==
    /\ pc \in {"sample_header", "sample_lines"}
          => fh = "open" /\ bgzf = "unopened" /\ gen_out = <<>>
    /\ (bgzf # "unopened" \/ gen_out # <<>>)
          => /\ fh = "closed"
             /\ j = Len(hdr)
             /\ ~sinkFailed => fh_out = <<"ID_1 ID_2 missing">> \o hdr

\* the genotype file is opened after the close; later steps leave the sample file alone
C5_SampleSinkStep ==
    /\ (bgzf = "unopened" /\ bgzf' # "unopened") => fh = "closed"
    /\ (bgzf # "unopened" \/ gen_out # <<>>) => fh_out' = fh_out /\ fh' = fh

\* C5: the sample file is opened, written and closed before the genotype file is
\* opened or written; nothing is written to the sample file afterwards, whatever
\* happens to the sites.
C5_SampleSinkFirst == [](C5_SampleSinkState) /\ [][C5_SampleSinkStep]_vars

\* a site was written, a later site with one allele was skipped
C5_Witness ==
    /\ pc = "stream" /\ gen_out # <<>> /\ nrecs > gen_out[Len(gen_out)].src
    /\ line.n_allele = 1
    /\ fh = "closed" /\ fh_out = <<"ID_1 ID_2 missing">> \o hdr

\* the gate as the claim states it: no predicate passes, include passes what the
\* evaluator accepts, exclude what it rejects
C7_Gate(c, ev) ==
    /\ ~c.filter => TRUE
    /\ (c.filter /\ c.logic = FLT_INCLUDE) => ev
    /\ (c.filter /\ c.logic = FLT_EXCLUDE) => ~ev

\* a step that writes a genotype line appends the current record, which passed the gates
C7_WriteStep ==
    gen_out' # gen_out =>
        /\ line'.n_allele >= 2
        /\ C7_Gate(cfg, line'.ev)
        /\ line'.nonempty
        /\ Len(gen_out') = Len(gen_out) + 1
        /\ SubSeq(gen_out', 1, Len(gen_out)) = gen_out
        /\ gen_out'[Len(gen_out')].src = nrecs'

\* the written lines are in the order of the source
C7_SourceOrder ==
    \A k \in 1..Len(gen_out), m \in 1..Len(gen_out) :
        k < m => gen_out[k].src < gen_out[m].src

\* C7: a source record is written to the genotype file only if it has at least 2
\* alleles, passes the filter gate and has non-empty encoder output; written
\* records keep source order.
C7_WrittenOnlyIfGated == [](C7_SourceOrder) /\ [][C7_WriteStep]_vars

\* under exclude polarity, a second record the evaluator rejects was written
C7_Witness ==
    /\ cfg.filter /\ cfg.logic = FLT_EXCLUDE
    /\ Len(gen_out) = 2 /\ gen_out[2].src = nrecs
    /\ ~line.ev /\ line.n_allele >= 2 /\ line.nonempty

\* C10: the i-th sample line of the sample file names the sample of the i-th
\* per-sample column of every genotype line.
C10_SameSampleOrder ==
    (fh = "closed" /\ ~sinkFailed) =>
        \A k \in 1..Len(gen_out) : gen_out[k].cols = Tail(fh_out)

====
